---- MODULE Spec2Model ----
(***************************************************************************)
(* Model of scripts/download_historical_data.py: the chunked download of   *)
(* Deribit funding-rate history and its CSV output.                        *)
(*                                                                         *)
(* Timestamps are milliseconds counted from local midnight of the first    *)
(* modelled date (2025-07-10) instead of from the Unix epoch, so that they *)
(* stay inside TLC's integers; every computation of the script is linear   *)
(* in the timestamps, so the shift changes no comparison and no            *)
(* difference.  Wall-clock time is counted in ticks of one sleep interval. *)
(***************************************************************************)
EXTENDS Integers, Sequences, FiniteSets, TLC

(* ------------------------------ bounds --------------------------------- *)
\* dates range over 2025-07-10 .. 2025-07-(10+MaxDay)
MaxDay == 3
\* CHUNK_SIZE_DAYS ranges over 1 .. MaxChunkDays
MaxChunkDays == 2
\* a successful response carries 0 .. MaxRecs records
MaxRecs == 2
\* wall-clock ticks that may pass, beyond the sleeps, before the clock is read
MaxElapse == 1
\* _save_data_to_csv is given 0 .. MaxRows records when checked on its own
MaxRows == 3
\* the script is run at most MaxRuns times in a row
MaxRuns == 2

(* ------------------------- configuration ------------------------------- *)
INSTRUMENT_NAME == "BTC-PERPETUAL"
DATA_TYPE == "funding_rate_history"
OUTPUT_DIRECTORY == "./data/raw"
\* SLEEP_INTERVAL_SECONDS = 0.5: one sleep is one tick, two ticks are a second
TicksPerSecond == 2
SleepTicks == 1

(* ------------------------- Python values ------------------------------- *)
\* None and lists are tagged, since Python tells them apart
PyNone == [none |-> TRUE, items |-> <<>>]
PyList(s) == [none |-> FALSE, items |-> s]

\* variant: an empty list counts as true (`is not None`)
TruthyNotNone(v) == ~v.none
\* truth value of None or of a list, as in `if chunk_data:` and `if not data:`
Truthy(v) == ~v.none /\ Len(v.items) > 0

\* a dict is the sequence of its <<key, value>> pairs, in insertion order
Keys(d) == [i \in 1..Len(d) |-> d[i][1]]
KeySet(d) == {d[i][1] : i \in 1..Len(d)}
HasKey(d, k) == k \in KeySet(d)
Lookup(d, k) == d[CHOOSE i \in 1..Len(d) : d[i][1] = k][2]

Range(s) == {s[i] : i \in 1..Len(s)}
Prefixes(s) == {SubSeq(s, 1, n) : n \in 0..Len(s)}
SeqsUpTo(S, n) == UNION {[1..m -> S] : m \in 0..n}

(* --------------------------- dates, names ------------------------------ *)
DateString(d) == "2025-07-" \o ToString(10 + d)
Dates == {DateString(d) : d \in 0..MaxDay}

\* strptime(date_string, "%Y-%m-%d"): the day the string names
DayOf(date_string) == CHOOSE d \in 0..MaxDay : DateString(d) = date_string

_date_to_timestamp_ms(date_string) == DayOf(date_string) * 24 * 60 * 60 * 1000

\* strftime("%Y%m%d-%H%M%S") of the wall clock: whole seconds only
TwoDigits(n) == IF n < 10 THEN "0" \o ToString(n) ELSE ToString(n)
RunTimestamp(t) == "20250718-1200" \o TwoDigits(t \div TicksPerSecond)

_generate_unique_filename(instrument, data_type, start_date, end_date, t) ==
    "DERIBIT_" \o instrument \o "_" \o data_type \o "_from_" \o start_date
       \o "_to_" \o end_date \o "_at_" \o RunTimestamp(t) \o ".csv"

PathJoin(dir, name) == dir \o "/" \o name

(* ------------------------- single-chunk fetcher ------------------------ *)
\* one funding-rate observation of the API
ApiRecord(ts) == << <<"timestamp", ts>>, <<"interest_8h", 0>> >>
ApiRecords(start_ms, n) == [i \in 1..n |-> ApiRecord(start_ms + i - 1)]

\* what one HTTP request can come to, for the window starting at start_ms:
\* no response at all, or a status and a JSON body
Responses(start_ms) ==
    {[kind |-> "no_response", status |-> 0, body |-> <<>>]}
    \cup {[kind |-> "http", status |-> 500, body |-> <<>>]}
    \cup {[kind |-> "http", status |-> 200,
           body |-> [error |-> [message |-> "bad_request"]]]}
    \cup {[kind |-> "http", status |-> 200, body |-> <<>>]}
    \cup {[kind |-> "http", status |-> 200,
           body |-> [result |-> ApiRecords(start_ms, n)]] : n \in 0..MaxRecs}

\* the try block: the exception it ends with ("" for none) and what it returns
TryRequest(resp) ==
    IF resp.kind = "no_response"
    THEN [exc |-> "ConnectionError", value |-> PyNone]
    ELSE IF resp.status >= 400
    THEN [exc |-> "HTTPError", value |-> PyNone]
    ELSE IF "result" \in DOMAIN resp.body
    THEN [exc |-> "", value |-> PyList(resp.body.result)]
    ELSE [exc |-> "", value |-> PyNone]

\* variant: only a failed connection is caught
CaughtOnlyConnectionError(exc) == exc = "ConnectionError"
\* except requests.exceptions.RequestException
Caught(exc) == exc \in {"ConnectionError", "HTTPError"}

\* raised: the exception that leaves the function ("" for none)
_get_funding_rate_history_chunk(resp) ==
    LET t == TryRequest(resp)
    IN  IF t.exc = "" THEN [raised |-> "", value |-> t.value]
        ELSE IF Caught(t.exc) THEN [raised |-> "", value |-> PyNone]
        ELSE [raised |-> t.exc, value |-> PyNone]

(* --------------------------- chunked aggregator ------------------------ *)
ChunkSizeMs(chunk_size_days) == chunk_size_days * 24 * 60 * 60 * 1000

\* variant: the loop also runs when current = end
LoopConditionInclusive(current, end) == current <= end
\* while current_start_ts < end_timestamp_ms
LoopCondition(current, end) == current < end

Min(a, b) == IF a < b THEN a ELSE b

\* variant: the window is not cut at the range's end
ChunkEndUnclamped(current, size, end) == current + size
\* current_end_ts = min(current_start_ts + chunk_size_ms, end_timestamp_ms)
ChunkEnd(current, size, end) == Min(current + size, end)

\* variant: the chunk is put before what was collected
ExtendInFront(all, chunk) == chunk \o all
\* all_data.extend(chunk_data)
Extend(all, chunk) == all \o chunk

(* ------------------------------ CSV writer ----------------------------- *)
\* DictWriter._dict_to_list: a key outside the fieldnames is an error
ExtraKeys(rowdict, fieldnames) == KeySet(rowdict) \ Range(fieldnames)

\* the row written for rowdict: str() of each field's value, "" where missing
CsvRow(rowdict, fieldnames) ==
    [i \in 1..Len(fieldnames) |->
        IF HasKey(rowdict, fieldnames[i])
        THEN ToString(Lookup(rowdict, fieldnames[i]))
        ELSE ""]

\* variant: the keys in reverse order
KeysReversed(d) == [i \in 1..Len(d) |-> d[Len(d) + 1 - i][1]]
\* headers = list(data[0].keys())
Headers(d) == Keys(d)

\* variant: writerows stops one record early
RowsWrittenButLast(n, records) == n >= Len(records) - 1
\* writerows has written every record
RowsWritten(n, records) == n = Len(records)

(* -------------------------------- state -------------------------------- *)
VARIABLES
    START_DATE, END_DATE, CHUNK_SIZE_DAYS,  \* the configuration of the script
    pc,                 \* where the run is
    start_ts, end_ts,   \* download_historical_data's timestamps
    current_start_ts,   \* _fetch_data_in_chunks: start of the next window
    all_data,           \* _fetch_data_in_chunks: the accumulator
    final_data,         \* download_historical_data: what the aggregator returned
    file_path, data,    \* _save_data_to_csv's arguments
    headers,            \* _save_data_to_csv: the DictWriter's fieldnames
    now,                \* the wall clock, in ticks
    fs,                 \* the files on disk: path -> rows
    dirExists,          \* whether OUTPUT_DIRECTORY exists
    terminated,         \* the process was killed from outside
    calls,              \* history: the windows the fetcher was called for
    responses,          \* history: what each request came to
    sleeps,             \* history: number of time.sleep calls of this run
    madeDir,            \* history: this run called os.makedirs
    generated,          \* history: the file paths generated, over all runs
    overwrote,          \* history: an open() truncated a file of an earlier run
    runs                \* number of runs started

config == <<START_DATE, END_DATE, CHUNK_SIZE_DAYS>>
fetchVars == <<start_ts, end_ts, current_start_ts, all_data, calls, responses, sleeps>>
saveVars == <<file_path, data, headers, fs, dirExists, madeDir, generated, overwrote>>
vars == <<config, pc, fetchVars, final_data, saveVars, now, terminated, runs>>

FreshRun ==
    /\ pc = "main"
    /\ start_ts = 0 /\ end_ts = 0 /\ current_start_ts = 0
    /\ all_data = <<>> /\ final_data = <<>>
    /\ file_path = "" /\ data = <<>> /\ headers = <<>>
    /\ terminated = FALSE
    /\ calls = <<>> /\ responses = <<>> /\ sleeps = 0
    /\ madeDir = FALSE

Init ==
    /\ START_DATE \in Dates
    /\ END_DATE \in Dates
    /\ CHUNK_SIZE_DAYS \in 1..MaxChunkDays
    /\ FreshRun
    /\ now = 0
    /\ fs = <<>>
    /\ dirExists \in BOOLEAN
    /\ generated = <<>>
    /\ overwrote = FALSE
    /\ runs = 1

(* ------------------------- download_historical_data -------------------- *)
\* lines 147-163 and 120-123: the timestamps, and the aggregator's entry
Start ==
    /\ pc = "main" /\ ~terminated
    /\ start_ts' = _date_to_timestamp_ms(START_DATE)
    /\ end_ts' = _date_to_timestamp_ms(END_DATE)
    /\ current_start_ts' = start_ts'
    /\ all_data' = <<>>
    /\ pc' = "loop"
    /\ UNCHANGED <<config, calls, responses, sleeps, final_data, saveVars, now,
                   terminated, runs>>

\* variant: a chunk without records is asked for again
FetchChunkWithRetry(resp) ==
    /\ pc = "loop" /\ ~terminated
    /\ LoopCondition(current_start_ts, end_ts)
    /\ LET size == ChunkSizeMs(CHUNK_SIZE_DAYS)
           current_end_ts == ChunkEnd(current_start_ts, size, end_ts)
           r == _get_funding_rate_history_chunk(resp)
       IN  /\ calls' = Append(calls, [start |-> current_start_ts, end |-> current_end_ts])
           /\ responses' = Append(responses, resp)
           /\ IF r.raised # ""
              THEN /\ pc' = "raised"
                   /\ UNCHANGED <<all_data, current_start_ts>>
              ELSE /\ all_data' = IF Truthy(r.value)
                                  THEN Extend(all_data, r.value.items)
                                  ELSE all_data
                   /\ current_start_ts' = IF Truthy(r.value)
                                          THEN current_start_ts + size
                                          ELSE current_start_ts
                   /\ pc' = "sleep"
    /\ UNCHANGED <<config, start_ts, end_ts, sleeps, final_data, saveVars, now,
                   terminated, runs>>

\* lines 124-139: one pass of the loop, up to the sleep
FetchChunkWith(resp) ==
    /\ pc = "loop" /\ ~terminated
    /\ LoopCondition(current_start_ts, end_ts)
    /\ LET size == ChunkSizeMs(CHUNK_SIZE_DAYS)
           current_end_ts == ChunkEnd(current_start_ts, size, end_ts)
           r == _get_funding_rate_history_chunk(resp)
       IN  /\ calls' = Append(calls, [start |-> current_start_ts, end |-> current_end_ts])
           /\ responses' = Append(responses, resp)
           /\ IF r.raised # ""
              THEN /\ pc' = "raised"
                   /\ UNCHANGED <<all_data, current_start_ts>>
              ELSE /\ all_data' = IF Truthy(r.value)
                                  THEN Extend(all_data, r.value.items)
                                  ELSE all_data
                   /\ current_start_ts' = current_start_ts + size
                   /\ pc' = "sleep"
    /\ UNCHANGED <<config, start_ts, end_ts, sleeps, final_data, saveVars, now,
                   terminated, runs>>

FetchChunk == \E resp \in Responses(current_start_ts) : FetchChunkWith(resp)

\* variant: no pause between requests
SleepSkipped ==
    /\ pc = "sleep" /\ ~terminated
    /\ pc' = "loop"
    /\ UNCHANGED <<config, start_ts, end_ts, current_start_ts, all_data, calls,
                   responses, sleeps, final_data, saveVars, now, terminated, runs>>

\* line 140: time.sleep(sleep_interval_seconds)
Sleep ==
    /\ pc = "sleep" /\ ~terminated
    /\ now' = now + SleepTicks
    /\ sleeps' = sleeps + 1
    /\ pc' = "loop"
    /\ UNCHANGED <<config, start_ts, end_ts, current_start_ts, all_data, calls,
                   responses, final_data, saveVars, terminated, runs>>

\* lines 124, 142 and 165-177: the loop ends, the aggregator returns, and the
\* orchestrator names the file or reports that nothing was downloaded
Return ==
    /\ pc = "loop" /\ ~terminated
    /\ ~LoopCondition(current_start_ts, end_ts)
    /\ final_data' = all_data
    /\ IF Truthy(PyList(all_data))
       THEN \E e \in 0..MaxElapse :
              /\ now' = now + e
              /\ file_path' = PathJoin(OUTPUT_DIRECTORY,
                     _generate_unique_filename(INSTRUMENT_NAME, DATA_TYPE,
                                               START_DATE, END_DATE, now'))
              /\ generated' = Append(generated, file_path')
              /\ data' = all_data
              /\ pc' = "save"
       ELSE /\ pc' = "done"
            /\ UNCHANGED <<now, file_path, generated, data>>
    /\ UNCHANGED <<config, fetchVars, headers, fs, dirExists, madeDir, overwrote,
                   terminated, runs>>

(* ----------------------------- _save_data_to_csv ----------------------- *)
\* lines 56-66: the guard, the directory, open(file_path, 'w')
SaveBegin ==
    /\ pc = "save" /\ ~terminated
    /\ IF ~Truthy(PyList(data))
       THEN /\ pc' = "done"
            /\ UNCHANGED <<fs, dirExists, madeDir, overwrote>>
       ELSE /\ dirExists' = TRUE
            /\ madeDir' = (madeDir \/ ~dirExists)
            /\ overwrote' = (overwrote \/ file_path \in DOMAIN fs)
            /\ fs' = (file_path :> <<>>) @@ fs
            /\ pc' = "write_header"
    /\ UNCHANGED <<config, fetchVars, final_data, file_path, data, headers,
                   generated, now, terminated, runs>>

\* lines 68-70: the fieldnames and the header row
WriteHeader ==
    /\ pc = "write_header" /\ ~terminated
    /\ IF Len(data) = 0
       THEN \* data[0]: IndexError
            /\ pc' = "raised"
            /\ UNCHANGED <<headers, fs>>
       ELSE /\ headers' = Headers(data[1])
            /\ fs' = [fs EXCEPT ![file_path] = Append(@, headers')]
            /\ pc' = "write_rows"
    /\ UNCHANGED <<config, fetchVars, final_data, file_path, data, dirExists,
                   madeDir, generated, overwrote, now, terminated, runs>>

\* line 71: writerows, one record at a time; a record with a key outside the
\* fieldnames raises ValueError, which closes the file and ends the run
WriteRow ==
    /\ pc = "write_rows" /\ ~terminated
    /\ LET n == Len(fs[file_path]) - 1
       IN  /\ ~RowsWritten(n, data)
           /\ IF ExtraKeys(data[n + 1], headers) # {}
              THEN /\ pc' = "raised"
                   /\ UNCHANGED fs
              ELSE /\ fs' = [fs EXCEPT ![file_path] =
                                 Append(@, CsvRow(data[n + 1], headers))]
                   /\ UNCHANGED pc
    /\ UNCHANGED <<config, fetchVars, final_data, file_path, data, headers,
                   dirExists, madeDir, generated, overwrote, now, terminated, runs>>

\* lines 66 (the with block ends), 72 and 179
SaveEnd ==
    /\ pc = "write_rows" /\ ~terminated
    /\ RowsWritten(Len(fs[file_path]) - 1, data)
    /\ pc' = "done"
    /\ UNCHANGED <<config, fetchVars, final_data, saveVars, now, terminated, runs>>

(* ------------------------------ environment ---------------------------- *)
Writing == pc \in {"write_header", "write_rows"}

\* the process is killed from outside: of what was written to an open file,
\* any prefix may have reached the disk
Terminate ==
    /\ ~terminated /\ pc \notin {"done", "raised"}
    /\ terminated' = TRUE
    /\ IF Writing
       THEN \E rows \in Prefixes(fs[file_path]) :
                fs' = [fs EXCEPT ![file_path] = rows]
       ELSE UNCHANGED fs
    /\ UNCHANGED <<config, pc, fetchVars, final_data, file_path, data, headers,
                   dirExists, madeDir, generated, overwrote, now, runs>>

\* the script is started again, with the same configuration
Rerun ==
    /\ terminated \/ pc \in {"done", "raised"}
    /\ runs < MaxRuns
    /\ runs' = runs + 1
    /\ \E e \in 0..MaxElapse : now' = now + e
    /\ pc' = "main"
    /\ start_ts' = 0 /\ end_ts' = 0 /\ current_start_ts' = 0
    /\ all_data' = <<>> /\ final_data' = <<>>
    /\ file_path' = "" /\ data' = <<>> /\ headers' = <<>>
    /\ terminated' = FALSE
    /\ calls' = <<>> /\ responses' = <<>> /\ sleeps' = 0
    /\ madeDir' = FALSE
    /\ UNCHANGED <<config, fs, dirExists, generated, overwrote>>

Program == Start \/ FetchChunk \/ Sleep \/ Return
               \/ SaveBegin \/ WriteHeader \/ WriteRow \/ SaveEnd

Next == Program \/ Terminate

\* one run of the script
Spec == Init /\ [][Next]_vars

\* one run that is not killed: a sequential program takes its next step
FairSpec == Init /\ [][Next]_vars /\ WF_vars(Program)

NextRuns == Program \/ Terminate \/ Rerun

\* the script run repeatedly with one configuration
SpecRuns == Init /\ [][NextRuns]_vars

(* ------------------- _save_data_to_csv on its own ---------------------- *)
Shapes == { <<"timestamp", "interest_8h">>, <<"interest_8h", "timestamp">>,
            <<"timestamp">>, <<"timestamp", "interest_8h", "index_price">> }
DictOf(shape, i) == [j \in 1..Len(shape) |-> <<shape[j], 10 * i + j>>]
CsvInputs == {[i \in 1..Len(ss) |-> DictOf(ss[i], i)] : ss \in SeqsUpTo(Shapes, MaxRows)}

InitCsv ==
    /\ START_DATE = DateString(0) /\ END_DATE = DateString(1)
    /\ CHUNK_SIZE_DAYS = 1
    /\ pc = "save"
    /\ start_ts = 0 /\ end_ts = 0 /\ current_start_ts = 0
    /\ all_data = <<>> /\ final_data = <<>>
    /\ data \in CsvInputs
    /\ now = 0
    /\ file_path = PathJoin(OUTPUT_DIRECTORY,
           _generate_unique_filename(INSTRUMENT_NAME, DATA_TYPE, START_DATE, END_DATE, now))
    /\ headers = <<>>
    /\ terminated = FALSE
    /\ calls = <<>> /\ responses = <<>> /\ sleeps = 0
    /\ madeDir = FALSE
    /\ fs = <<>>
    /\ dirExists \in BOOLEAN
    /\ generated = <<>>
    /\ overwrote = FALSE
    /\ runs = 1

NextCsv == SaveBegin \/ WriteHeader \/ WriteRow \/ SaveEnd

SpecCsv == InitCsv /\ [][NextCsv]_vars

(* ======================================================================= *)
(* Properties                                                              *)
(* ======================================================================= *)
\* the aggregator has returned to the orchestrator
Returned == pc \in {"save", "write_header", "write_rows", "done"}

RangeLength == end_ts - start_ts
CeilDiv(a, b) == (a + b - 1) \div b

Succeeded(resp) ==
    resp.kind = "http" /\ resp.status < 400 /\ "result" \in DOMAIN resp.body
FailedTransport(resp) == resp.kind = "no_response"
FailedStatus(resp) == resp.kind = "http" /\ resp.status >= 400
FailedApi(resp) ==
    resp.kind = "http" /\ resp.status < 400 /\ "error" \in DOMAIN resp.body
HasRecords(resp) == Succeeded(resp) /\ Len(resp.body.result) > 0

\* the records of the chunks that succeeded, in chunk order
RECURSIVE Succeeding(_)
Succeeding(rs) ==
    IF rs = <<>> THEN <<>>
    ELSE (IF Succeeded(Head(rs)) THEN Head(rs).body.result ELSE <<>>)
             \o Succeeding(Tail(rs))

(* ----------------------------------------------------------------------- *)
\* C1: once _fetch_data_in_chunks has returned for a range of length D > 0
\* with chunk size C, it has called the fetcher exactly ceil(D/C) times,
\* whatever the calls returned.
C1_FetchCount ==
    (Returned /\ RangeLength > 0)
        => Len(calls) = CeilDiv(RangeLength, ChunkSizeMs(CHUNK_SIZE_DAYS))

\* a range of three days in chunks of two: two calls, one failed, one with records
C1_Witness ==
    /\ Returned
    /\ RangeLength = 3 * ChunkSizeMs(1) /\ CHUNK_SIZE_DAYS = 2
    /\ Len(calls) = 2
    /\ FailedTransport(responses[1]) /\ HasRecords(responses[2])

(* ----------------------------------------------------------------------- *)
\* C2: the k-th call (from 0) is for [start + k*C, min(start + (k+1)*C, end)):
\* every window is non-empty, no longer than C, never past the range's end,
\* each starts where the one before ended, and once the aggregator has
\* returned they cover [start, end) exactly; 2025-07-10 to 2025-07-12 in
\* chunks of one day gives the windows [07-10,07-11) and [07-11,07-12).
C2_Windows ==
    LET C == ChunkSizeMs(CHUNK_SIZE_DAYS)
        n == Len(calls)
    IN  /\ \A k \in 1..n :
              /\ calls[k].start = start_ts + (k - 1) * C
              /\ calls[k].end = (IF start_ts + k * C < end_ts
                                 THEN start_ts + k * C ELSE end_ts)
              /\ calls[k].start < calls[k].end
              /\ calls[k].end - calls[k].start <= C
              /\ calls[k].end <= end_ts
              /\ k > 1 => calls[k].start = calls[k - 1].end
        /\ (Returned /\ RangeLength > 0)
              => (calls[1].start = start_ts /\ calls[n].end = end_ts)
        /\ (Returned /\ START_DATE = "2025-07-10" /\ END_DATE = "2025-07-12"
                /\ CHUNK_SIZE_DAYS = 1)
              => calls = << [start |-> _date_to_timestamp_ms("2025-07-10"),
                             end |-> _date_to_timestamp_ms("2025-07-11")],
                            [start |-> _date_to_timestamp_ms("2025-07-11"),
                             end |-> _date_to_timestamp_ms("2025-07-12")] >>

\* the last window of a three-day range in chunks of two days is cut short
C2_Witness ==
    /\ Returned
    /\ START_DATE = "2025-07-10" /\ END_DATE = "2025-07-13" /\ CHUNK_SIZE_DAYS = 2
    /\ Len(calls) = 2
    /\ calls[2].end - calls[2].start < ChunkSizeMs(CHUNK_SIZE_DAYS)
    /\ calls[2].end = end_ts

(* ----------------------------------------------------------------------- *)
\* C3: if every chunk fetch succeeded with N records, the returned list has
\* (number of chunks * N) records, chunk k's records before chunk k+1's and
\* each chunk's records in the order the fetcher returned them (so in
\* chronological order).
C3_AllSucceed ==
    \A N \in 0..(MaxRecs + 1) :
        (Returned /\ \A k \in 1..Len(responses) :
                        Succeeded(responses[k]) /\ Len(responses[k].body.result) = N)
        => /\ Len(final_data) = Len(calls) * N
           /\ \A k \in 1..Len(responses) : \A j \in 1..N :
                  final_data[(k - 1) * N + j] = responses[k].body.result[j]
           /\ \A k \in 1..(Len(calls) - 1) : calls[k].start < calls[k + 1].start

\* three chunks of two records each
C3_Witness ==
    /\ Returned
    /\ Len(calls) = 3
    /\ \A k \in 1..3 : Succeeded(responses[k]) /\ Len(responses[k].body.result) = 2
    /\ Len(final_data) = 6

ExpectedCsv(records) ==
    <<Keys(records[1])>>
        \o [i \in 1..Len(records) |-> CsvRow(records[i], Keys(records[1]))]

NoFile == DOMAIN fs = {}
CompleteFile ==
    /\ final_data # <<>>
    /\ DOMAIN fs = {file_path}
    /\ fs[file_path] = ExpectedCsv(final_data)

\* C5 as stated: wherever the process is killed, the output file does not
\* exist or holds the header and every collected record.
C5_NoPartialFile == terminated => (NoFile \/ CompleteFile)

\* C5: until _save_data_to_csv opens the output file (so anywhere in the
\* fetch loop), killed or not, no file exists; outside the writing of the
\* file, the file does not exist or holds the header and every collected
\* record; and a run that completes with records leaves the complete file.
C5_NoPartialFileOutsideWrite ==
    /\ pc \in {"main", "loop", "sleep", "save"} => NoFile
    /\ ~Writing => (NoFile \/ CompleteFile)
    /\ (pc = "done" /\ final_data # <<>>) => CompleteFile

\* killed in the loop's pause after records were collected: no file
C5_Witness ==
    /\ terminated
    /\ pc = "sleep"
    /\ Len(all_data) > 0
    /\ Len(calls) = 2
    /\ NoFile

(* ----------------------------------------------------------------------- *)
\* C6: any two runs with the same instrument, data type, start date and end
\* date are given different file names, and no run overwrites the CSV of an
\* earlier one.
C6_UniqueFilenames ==
    /\ \A i, j \in 1..Len(generated) : i # j => generated[i] # generated[j]
    /\ ~overwrote

(* ----------------------------------------------------------------------- *)
\* C7: a completed run has written a CSV file if and only if the aggregator
\* collected a record; with no record collected (every chunk failed or was
\* empty, or the range is empty) no file is written and no directory is
\* made, and the run ends normally, without an exception.
C7_FileIffRecords ==
    /\ pc # "raised"
    /\ pc = "done" => (~NoFile <=> Len(final_data) > 0)
    /\ (Returned /\ Len(final_data) = 0)
          => (pc = "done" /\ NoFile /\ ~madeDir /\ file_path = "")
    /\ ~NoFile => Len(final_data) > 0

\* a range of two chunks, one failed and one empty: the run is done, no file
C7_Witness ==
    /\ pc = "done"
    /\ Len(calls) = 2
    /\ FailedApi(responses[1])
    /\ Succeeded(responses[2]) /\ responses[2].body.result = <<>>
    /\ final_data = <<>>
    /\ NoFile /\ ~madeDir

(* ----------------------------------------------------------------------- *)
Finished == pc \in {"done", "raised"}

\* what C8 says of the file written for data
HeaderAndRows ==
    LET rows == fs[file_path]
        first == data[1]
    IN  /\ Len(rows) = Len(data) + 1
        /\ Len(rows[1]) = Len(first)
        /\ \A j \in 1..Len(first) : rows[1][j] = first[j][1]
        /\ \A i \in 1..Len(data) : \A j \in 1..Len(first) :
              rows[i + 1][j] = (IF HasKey(data[i], first[j][1])
                                THEN ToString(Lookup(data[i], first[j][1]))
                                ELSE "")

\* C8 as stated: for every non-empty sequence of records, the file's header
\* is the first record's keys in their order, the rows follow in input
\* order, and there are as many rows as records, plus the header.
C8_HeaderAndRows ==
    (Finished /\ Len(data) > 0) => HeaderAndRows

\* C8: the same, for every non-empty sequence of records none of which has a
\* key that the first record lacks; the write then raises nothing.
C8_HeaderAndRowsNoExtraKey ==
    (Len(data) > 0 /\ \A i \in 1..Len(data) : KeySet(data[i]) \subseteq KeySet(data[1]))
    => /\ pc # "raised"
       /\ pc = "done" => HeaderAndRows

\* three records: the second with the keys in another order, the third
\* lacking one
C8_Witness ==
    /\ pc = "done"
    /\ Len(data) = 3
    /\ Keys(data[1]) = <<"timestamp", "interest_8h">>
    /\ Keys(data[2]) = <<"interest_8h", "timestamp">>
    /\ Keys(data[3]) = <<"timestamp">>
    /\ Len(fs[file_path]) = 4

(* ----------------------------------------------------------------------- *)
C9_Safety ==
    /\ \A k \in 1..Len(calls) : calls[k].start < end_ts
    /\ Returned => current_start_ts >= end_ts
    /\ (pc # "main" /\ start_ts >= end_ts) => calls = <<>>
    /\ pc = "sleep" => sleeps = Len(calls) - 1
    /\ (pc = "loop" \/ Returned) => sleeps = Len(calls)

\* C9: for every start, end and chunk size of at least a day, the loop ends
\* (the aggregator returns, unless the process is killed first); it ends
\* with current start >= range_end, no fetch is for a window starting at or
\* after range_end (none at all when start >= range_end), and every fetch
\* is followed by one pause before the next fetch or the return.
C9_LoopTerminates == []C9_Safety /\ <>(Returned \/ terminated)

\* the loop has ended after three fetches and three pauses
C9_Witness ==
    /\ Returned
    /\ Len(calls) = 3
    /\ sleeps = 3
    /\ current_start_ts = end_ts

(* ----------------------------------------------------------------------- *)
\* C10: each fetch is for the window at the current start, and the start
\* then advances by the chunk size whatever the fetch came to; an earlier
\* window is never asked for again.  The windows requested thus depend on
\* the configuration alone.
C10_FixedStride ==
    [][Len(calls') = Len(calls) + 1
        => /\ calls'[Len(calls')].start = current_start_ts
           /\ current_start_ts' = current_start_ts + ChunkSizeMs(CHUNK_SIZE_DAYS)
           /\ \A k \in 1..Len(calls) :
                 calls'[k] = calls[k] /\ calls[k].start < current_start_ts]_vars

\* three windows, the first failed, the second empty, the third with records
C10_Witness ==
    /\ Returned
    /\ Len(calls) = 3
    /\ FailedTransport(responses[1])
    /\ Succeeded(responses[2]) /\ responses[2].body.result = <<>>
    /\ HasRecords(responses[3])
    /\ \A k \in 1..3 : calls[k].start = start_ts + (k - 1) * ChunkSizeMs(CHUNK_SIZE_DAYS)

====
